---- MODULE Spec2Model ----
(***************************************************************************)
(* Model of PortfolioOptimizer (src/optimizers/allocation_optimizer.py):   *)
(* efficient_frontier, _minimize_risks and return_highest_sharpe_ratio.    *)
(*                                                                         *)
(* Numbers are fixed point.  Weights are integers in units of 1/n (n the   *)
(* number of tickers), so the equal-weight guess is the all-ones vector.   *)
(* Returns are integers in units of 1/(100 * 252), so that the daily risk-  *)
(* free rate 0.03/252 is 3 units; grid targets are numerators over GridDen.*)
(* A standard deviation is the integer square root of the variance.  A     *)
(* Sharpe ratio is kept as a fraction num/den.                             *)
(* Two calls of return_highest_sharpe_ratio run on optimizers built from   *)
(* the same price data; they differ in the budget only.                    *)
(***************************************************************************)
EXTENDS Integers, Sequences, FiniteSets, TLC

\* ------------------------------------------------------------------ bounds
\* largest number of grid points of the frontier (n_points is 50 in the
\* code; the model runs the grid at every size from 1 to NPoints)
NPoints == 2
\* largest budget a request carries
MaxBudget == 2
\* largest number of price rows left by ffill().dropna()
MaxRows == 3

\* largest number of dates in a downloaded price table
MaxDates == 3

\* latest hour the clock of the authentication routes reaches
MaxTime == 2

\* ------------------------------------------------------- program constants
\* ACCESS_TOKEN_EXPIRE_MINUTES = 60, in hours
AccessTokenExpire == 1
\* REFRESH_TOKEN_EXPIRE_DAYS = 7, in hours
RefreshTokenExpire == 168
\* risk_free_rate = 0.03 / 252, in units of 1 / (100 * 252)
RfNum == 3

Calls == {1, 2}
\* float budgets of the request: any sign (OptimizerRequest.budget: float)
Budgets == {0 - 1, 0, MaxBudget}

\* price data of one optimizer: tickers, mean return per ticker, covariance
DataChoices ==
    { [tickers |-> <<"A", "B">>, mean_returns |-> <<2, 4>>,
       cov |-> << <<4, 1>>, <<1, 9>> >>],
      [tickers |-> <<"A", "B">>, mean_returns |-> <<4, 4>>,
       cov |-> << <<0, 0>>, <<0, 9>> >>],
      [tickers |-> <<"A", "B">>, mean_returns |-> <<5, 4>>,
       cov |-> << <<9, 1>>, <<1, 4>> >>],
      [tickers |-> <<"A">>, mean_returns |-> <<4>>,
       cov |-> << <<4>> >>] }

VARIABLES tickers, mean_returns, cov, allow_short, solver, n_points,
          budget, pc, idx, ef, scan_i, max_sharpe_ratio, portfolio_index,
          outcome, log, download, instance,
          \* the construction of one optimizer, step by step
          stage, req_tickers, stock_market, formatted_tickers, data_close,
          prices_df, normalized_df, stats,
          \* the authentication routes
          users, now, last,
          \* the stock routes seen from the market string
          requests

\* the construction of an optimizer from the caller's tickers
extract_vars ==
    <<stage, req_tickers, stock_market, formatted_tickers, data_close,
      prices_df, normalized_df, stats>>

\* the user table, the clock, the last request and its answer
auth_vars == <<users, now, last>>

\* the state of the components an optimizer call does not touch
other_vars == <<extract_vars, auth_vars, requests>>

vars == <<tickers, mean_returns, cov, allow_short, solver, n_points,
          budget, pc, idx, ef, scan_i, max_sharpe_ratio, portfolio_index,
          outcome, log, download, instance, other_vars>>

optimizer_vars ==
    <<tickers, mean_returns, cov, allow_short, solver, n_points,
      download, instance>>

\* ----------------------------------------------------------------- helpers
RECURSIVE SumSeq(_)
SumSeq(s) == IF s = <<>> THEN 0 ELSE Head(s) + SumSeq(Tail(s))

RECURSIVE MinSeq(_)
MinSeq(s) == IF Len(s) = 1 THEN s[1]
             ELSE LET m == MinSeq(Tail(s)) IN IF s[1] < m THEN s[1] ELSE m

RECURSIVE MaxSeq(_)
MaxSeq(s) == IF Len(s) = 1 THEN s[1]
             ELSE LET m == MaxSeq(Tail(s)) IN IF s[1] > m THEN s[1] ELSE m

\* mean_returns @ w
Dot(a, b) == SumSeq([k \in 1..Len(a) |-> a[k] * b[k]])

\* w @ cov @ w  (objective of _minimize_risks)
Objective(c_, w) == Dot(w, [r \in 1..Len(w) |-> Dot(c_[r], w)])

\* np.sqrt on the fixed-point grid
Sqrt(v) == CHOOSE s \in 0..v : s * s <= v /\ (s + 1) * (s + 1) > v

RangeOf(s) == {s[k] : k \in 1..Len(s)}

n == Len(tickers)

\* ------------------------------------------------ the downloaded prices
\* what yf.download hands to __extract_data: it raises, it returns data
\* without a 'Close' column, or it returns a price table of which rows
\* rows are left after ffill().dropna()
Downloads ==
    [kind : {"raise", "malformed"}, rows : {0}]
      \cup [kind : {"table"}, rows : 1..MaxRows]

NoDownload == [kind |-> "none", rows |-> 0]

\* normalized_df = pct_change().dropna() has rows - 1 rows: mean() is a
\* number from one return on, cov() (ddof = 1) from two returns on
MeanDefined(c) == download[c].rows - 1 >= 1
CovDefined(c) == download[c].rows - 1 >= 2

\* the float nan that pandas gives for the statistics of too few rows; no
\* comparison with it is true
NaN == 0 - 999999

\* ------------------------------------------------------------- the solver
\* bounds handed to sco.minimize: (None, None) or (0, None) per weight; the
\* box is cut at one unit outside [0, 1] to keep the model finite
WeightRange(short) == IF short THEN (0 - 1)..(n + 1) ELSE 0..n

\* iterates that satisfy the bounds and the full-investment constraint
Feasible(short) ==
    {w \in [1..n -> WeightRange(short)] : SumSeq(w) = n}

\* initial guess w0 = np.ones(n) / n
InitialGuess == [k \in 1..n |-> 1]

\* what sco.minimize can answer for one target: converged on a feasible
\* point, stopped without converging (result.x is the last iterate, here
\* the initial guess), or raised
SolverOutcomes(short) ==
    [kind : {"success"}, x : Feasible(short)]
      \cup [kind : {"noconv", "raise"}, x : {InitialGuess}]

\* ------------------------------------------------------- _minimize_risks
StatKeys == {"daily_variance", "daily_return", "daily_std",
             "optimization_success"}

\* position of a key in self.tickers (a dict keeps the last assignment)
TickerIndex(k) ==
    CHOOSE p \in 1..n :
        tickers[p] = k /\ \A q \in (p + 1)..n : tickers[q] # k

\* the results dictionary built from result.x = o.x for budget b
MinimizeRisks(o, b) ==
    [k \in RangeOf(tickers) \cup StatKeys |->
        IF k = "optimization_success" THEN o.kind = "success"
        ELSE IF k = "daily_std" THEN Sqrt(Objective(cov, o.x)) * b
        ELSE IF k = "daily_return" THEN Dot(mean_returns, o.x) * b
        ELSE IF k = "daily_variance" THEN Objective(cov, o.x)
        ELSE o.x[TickerIndex(k)] * b]

\* ----------------------------------------------------- efficient_frontier
\* np.linspace(min_return, max_return, n_points): numerators over GridDen
GridDen == IF n_points > 1 THEN n_points - 1 ELSE 1

\* mutant of TargetReturn: the grid runs from the maximum down
TargetReturnDescending(g) ==
    MaxSeq(mean_returns) * GridDen
      - g * (MaxSeq(mean_returns) - MinSeq(mean_returns))

TargetReturn(g) ==
    MinSeq(mean_returns) * GridDen
      + g * (MaxSeq(mean_returns) - MinSeq(mean_returns))

\* 'weights': {k: v/budget if budget > 0 else v for k, v in result.items()
\*             if k in self.tickers}
PortfolioWeights(result, b) ==
    [k \in {d \in DOMAIN result : d \in RangeOf(tickers)} |->
        IF b > 0 THEN result[k] \div b ELSE result[k]]

\* mutant of Portfolio: the budget-scaled daily_std as the point's std
PortfolioDailyStd(g, result, b) ==
    [target_return |-> TargetReturn(g),
     variance      |-> result["daily_variance"],
     std           |-> result["daily_std"],
     weights       |-> PortfolioWeights(result, b)]

\* the frontier point appended for grid index g
Portfolio(g, result, b) ==
    [target_return |-> TargetReturn(g),
     variance      |-> result["daily_variance"],
     std           |-> Sqrt(result["daily_variance"]),
     weights       |-> PortfolioWeights(result, b)]

\* the frontier point of the optimizer of call c: nan mean returns make the
\* grid nan (np.min, np.linspace), a nan covariance makes w @ cov @ w and
\* its square root nan
InstancePortfolio(c, g, result, b) ==
    LET p == Portfolio(g, result, b)
    IN  [p EXCEPT !.target_return = IF MeanDefined(c) THEN @ ELSE NaN,
                  !.variance = IF CovDefined(c) THEN @ ELSE NaN,
                  !.std = IF CovDefined(c) THEN @ ELSE NaN]

\* ------------------------------------------- return_highest_sharpe_ratio
\* -np.inf as a fraction: smaller than every num/den with den > 0
NegInf == [num |-> 0 - 1, den |-> 0]

\* mutant of SharpeRatio: the annual rate 0.03 taken as the daily rate
SharpeRatioAnnualRate(expected_return, std_dev) ==
    IF expected_return = NaN \/ std_dev = NaN
    THEN [num |-> NaN, den |-> NaN]
    ELSE [num |-> expected_return - RfNum * 252 * GridDen, den |-> std_dev]

\* (expected_return - risk_free_rate) / std_dev; expected_return is a
\* numerator over GridDen, and so is the numerator of the ratio
SharpeRatio(expected_return, std_dev) ==
    IF expected_return = NaN \/ std_dev = NaN
    THEN [num |-> NaN, den |-> NaN]
    ELSE [num |-> expected_return - RfNum * GridDen, den |-> std_dev]

\* mutant of Greater: replaces the best on a tie as well
GreaterOrEqual(a, b) ==
    /\ a.num # NaN /\ b.num # NaN
    /\ a.num * b.den >= b.num * a.den

\* a > b on fractions with non-negative denominators; false for a nan
Greater(a, b) ==
    /\ a.num # NaN /\ b.num # NaN
    /\ a.num * b.den > b.num * a.den

\* the value read for OptimizerResult.volatility (before * np.sqrt(252))
VolatilityKey == "daily_variance"

Pending == [kind |-> "pending"]
Raised(msg) == [kind |-> "raised", error |-> msg]
Returned(r) == [kind |-> "returned", result |-> r]

\* ------------------------------------------------- components at rest
\* a price table: column labels, dates, one row of cells per date
NoTable == [columns |-> <<>>, index |-> <<>>, cells |-> <<>>]

\* the asset behind each position of mean_returns and of cov
NoStats == [mean_of |-> <<>>, cov_of |-> <<>>]

\* no bearer token, no token pair, no user row
NoToken == [sub |-> "<none>", type |-> "none", exp |-> 0, signed |-> FALSE]
NoTokens == [access_token |-> NoToken, refresh_token |-> NoToken]
NoUser ==
    [id |-> 0, email |-> "", username |-> "", hashed_password |-> <<>>,
     is_active |-> FALSE]

\* the record of a handled request: what was sent, what was answered,
\* whether the body of the route ran
NoAnswer ==
    [op |-> "none", email |-> "", username |-> "", password |-> "",
     token |-> NoToken, status |-> 0, detail |-> "", tokens |-> NoTokens,
     user |-> NoUser, ran |-> FALSE]

\* no optimizer under construction
ExtractIdle ==
    /\ stage = "idle"
    /\ req_tickers = <<>>
    /\ stock_market = "US"
    /\ formatted_tickers = <<>>
    /\ data_close = NoTable
    /\ prices_df = NoTable
    /\ normalized_df = NoTable
    /\ stats = NoStats

\* no user, no request answered
AuthIdle ==
    /\ users = {}
    /\ now = 0
    /\ last = NoAnswer

\* no request at the stock routes
RouterIdle == requests = <<>>

\* no optimizer call
OptimizerIdle ==
    /\ tickers = <<>>
    /\ mean_returns = <<>>
    /\ cov = <<>>
    /\ allow_short = FALSE
    /\ solver = <<>>
    /\ n_points = 1
    /\ budget = [c \in Calls |-> 0]
    /\ pc = [c \in Calls |-> "idle"]
    /\ idx = [c \in Calls |-> 0]
    /\ ef = [c \in Calls |-> <<>>]
    /\ scan_i = [c \in Calls |-> 0]
    /\ max_sharpe_ratio = [c \in Calls |-> NegInf]
    /\ portfolio_index = [c \in Calls |-> 0 - 1]
    /\ outcome = [c \in Calls |-> Pending]
    /\ log = [c \in Calls |-> <<>>]
    /\ download = [c \in Calls |-> NoDownload]
    /\ instance = [c \in Calls |-> "none"]

optimizer_call_vars ==
    <<tickers, mean_returns, cov, allow_short, solver, n_points, budget,
      pc, idx, ef, scan_i, max_sharpe_ratio, portfolio_index, outcome, log,
      download, instance>>

\* ------------------------------------------------------------------- Init
\* two optimizers constructed on the same price data, each about to run
\* return_highest_sharpe_ratio with its own budget; sco.minimize is a
\* function of its inputs, so one answer per grid target serves both
Init ==
    /\ \E d \in DataChoices :
          /\ tickers = d.tickers
          /\ mean_returns = d.mean_returns
          /\ cov = d.cov
    /\ allow_short \in BOOLEAN
    /\ n_points \in 1..NPoints
    /\ solver \in [0..(n_points - 1) -> SolverOutcomes(allow_short)]
    /\ budget \in [Calls -> Budgets]
    /\ pc = [c \in Calls |-> "frontier"]
    /\ idx = [c \in Calls |-> 0]
    /\ ef = [c \in Calls |-> <<>>]
    /\ scan_i = [c \in Calls |-> 0]
    /\ max_sharpe_ratio = [c \in Calls |-> NegInf]
    /\ portfolio_index = [c \in Calls |-> 0 - 1]
    /\ outcome = [c \in Calls |-> Pending]
    /\ log = [c \in Calls |-> <<>>]
    /\ download = [c \in Calls |-> [kind |-> "table", rows |-> MaxRows]]
    /\ instance = [c \in Calls |-> "built"]
    /\ ExtractIdle /\ AuthIdle /\ RouterIdle

\* the /optimize requests as they arrive: nothing downloaded, no optimizer;
\* the endpoint leaves allow_short at its default False (line 283)
InitRequest ==
    /\ \E d \in DataChoices :
          /\ tickers = d.tickers
          /\ mean_returns = d.mean_returns
          /\ cov = d.cov
    /\ allow_short = FALSE
    /\ n_points \in 1..NPoints
    /\ solver \in [0..(n_points - 1) -> SolverOutcomes(allow_short)]
    /\ budget \in [Calls -> Budgets]
    /\ pc = [c \in Calls |-> "request"]
    /\ idx = [c \in Calls |-> 0]
    /\ ef = [c \in Calls |-> <<>>]
    /\ scan_i = [c \in Calls |-> 0]
    /\ max_sharpe_ratio = [c \in Calls |-> NegInf]
    /\ portfolio_index = [c \in Calls |-> 0 - 1]
    /\ outcome = [c \in Calls |-> Pending]
    /\ log = [c \in Calls |-> <<>>]
    /\ download = [c \in Calls |-> NoDownload]
    /\ instance = [c \in Calls |-> "none"]
    /\ ExtractIdle /\ AuthIdle /\ RouterIdle

\* ---------------------------------------------------------------- actions
\* the exception that leaves __extract_data for a download (lines 91-99)
DownloadError(d) ==
    IF d.kind = "raise" THEN "download failed" ELSE "KeyError: 'Close'"

\* mutant of OptimizePortfolio: data without a 'Close' column is taken as
\* an empty price table
OptimizePortfolioLenient(c) ==
    /\ pc[c] = "request"
    /\ \E d \in Downloads :
          /\ download' = [download EXCEPT ![c] = d]
          /\ IF d.kind = "raise"
             THEN /\ outcome' = [outcome EXCEPT
                                   ![c] = Raised(DownloadError(d))]
                  /\ pc' = [pc EXCEPT ![c] = "done"]
                  /\ UNCHANGED instance
             ELSE /\ instance' = [instance EXCEPT ![c] = "built"]
                  /\ pc' = [pc EXCEPT ![c] = "frontier"]
                  /\ UNCHANGED outcome
    /\ UNCHANGED <<other_vars, tickers, mean_returns, cov, allow_short,
                   solver, n_points, budget, idx, ef, scan_i,
                   max_sharpe_ratio, portfolio_index, log>>

\* optimize_portfolio up to the constructed optimizer (main_router.py lines
\* 270-281; __init__, __extract_data, __normalize_data): an exception of the
\* download or of data['Close'] is re-raised to the endpoint; a price table
\* is taken whatever its number of rows
OptimizePortfolio(c) ==
    /\ pc[c] = "request"
    /\ \E d \in Downloads :
          /\ download' = [download EXCEPT ![c] = d]
          /\ IF d.kind # "table"
             THEN /\ outcome' = [outcome EXCEPT
                                   ![c] = Raised(DownloadError(d))]
                  /\ pc' = [pc EXCEPT ![c] = "done"]
                  /\ UNCHANGED instance
             ELSE /\ instance' = [instance EXCEPT ![c] = "built"]
                  /\ pc' = [pc EXCEPT ![c] = "frontier"]
                  /\ UNCHANGED outcome
    /\ UNCHANGED <<other_vars, tickers, mean_returns, cov, allow_short,
                   solver, n_points, budget, idx, ef, scan_i,
                   max_sharpe_ratio, portfolio_index, log>>

\* the answer of the endpoint (main_router.py lines 281-289): the result,
\* or HTTPException(500, detail = str(e)) for any exception
OptimizeResponse(c) ==
    IF outcome[c].kind = "returned"
    THEN [status |-> 200, body |-> outcome[c].result]
    ELSE IF outcome[c].kind = "raised"
    THEN [status |-> 500, body |-> outcome[c].error]
    ELSE [status |-> 0, body |-> "none"]

\* the record the logger receives for grid index g: "added" (line 215),
\* "failed" (line 217) or "error" (line 219)
LogEntry(g, event) == [point |-> g, event |-> event]

\* mutant of FrontierPoint: an exception of the solve ends the loop
FrontierPointAbort(c) ==
    /\ pc[c] = "frontier"
    /\ idx[c] < n_points
    /\ LET o == solver[idx[c]]
           result == MinimizeRisks(o, budget[c])
       IN  IF o.kind = "raise"
           THEN /\ log' = [log EXCEPT
                             ![c] = Append(@, LogEntry(idx[c], "error"))]
                /\ idx' = [idx EXCEPT ![c] = n_points]
                /\ UNCHANGED ef
           ELSE /\ idx' = [idx EXCEPT ![c] = @ + 1]
                /\ IF result["optimization_success"]
                   THEN /\ ef' = [ef EXCEPT ![c] = Append(@,
                                    InstancePortfolio(c, idx[c], result,
                                                      budget[c]))]
                        /\ log' = [log EXCEPT ![c] =
                                    Append(@, LogEntry(idx[c], "added"))]
                   ELSE /\ log' = [log EXCEPT ![c] =
                                    Append(@, LogEntry(idx[c], "failed"))]
                        /\ UNCHANGED ef
    /\ UNCHANGED <<other_vars, optimizer_vars, budget, pc, scan_i,
                   max_sharpe_ratio, portfolio_index, outcome>>

\* mutant of FrontierPoint: the solve starts from a random guess, so the
\* target gets any outcome the solver can produce
FrontierPointRandomStart(c) ==
    /\ pc[c] = "frontier"
    /\ idx[c] < n_points
    /\ \E o \in SolverOutcomes(allow_short) :
         LET result == MinimizeRisks(o, budget[c])
         IN  IF o.kind = "raise"
             THEN /\ log' = [log EXCEPT
                               ![c] = Append(@, LogEntry(idx[c], "error"))]
                  /\ UNCHANGED ef
             ELSE IF result["optimization_success"]
             THEN /\ ef' = [ef EXCEPT ![c] =
                              Append(@, InstancePortfolio(c, idx[c], result,
                                                          budget[c]))]
                  /\ log' = [log EXCEPT
                               ![c] = Append(@, LogEntry(idx[c], "added"))]
             ELSE /\ log' = [log EXCEPT
                               ![c] = Append(@, LogEntry(idx[c], "failed"))]
                  /\ UNCHANGED ef
    /\ idx' = [idx EXCEPT ![c] = @ + 1]
    /\ UNCHANGED <<other_vars, optimizer_vars, budget, pc, scan_i,
                   max_sharpe_ratio, portfolio_index, outcome>>

\* mutant of FrontierPoint: a solve that follows a converged one starts
\* from the weights kept from it and stays there
FrontierPointWarmStart(c) ==
    /\ pc[c] = "frontier"
    /\ idx[c] < n_points
    /\ LET o == IF idx[c] > 0 /\ solver[idx[c] - 1].kind = "success"
                THEN [solver[idx[c]] EXCEPT !.x = solver[idx[c] - 1].x]
                ELSE solver[idx[c]]
           result == MinimizeRisks(o, budget[c])
       IN  IF o.kind = "raise"
           THEN /\ log' = [log EXCEPT
                             ![c] = Append(@, LogEntry(idx[c], "error"))]
                /\ UNCHANGED ef
           ELSE IF result["optimization_success"]
           THEN /\ ef' = [ef EXCEPT ![c] =
                            Append(@, InstancePortfolio(c, idx[c], result,
                                                        budget[c]))]
                /\ log' = [log EXCEPT
                             ![c] = Append(@, LogEntry(idx[c], "added"))]
           ELSE /\ log' = [log EXCEPT
                             ![c] = Append(@, LogEntry(idx[c], "failed"))]
                /\ UNCHANGED ef
    /\ idx' = [idx EXCEPT ![c] = @ + 1]
    /\ UNCHANGED <<other_vars, optimizer_vars, budget, pc, scan_i,
                   max_sharpe_ratio, portfolio_index, outcome>>

\* one iteration of the loop of efficient_frontier (lines 201-220): the
\* solve of one target; an exception is caught inside the loop
FrontierPoint(c) ==
    /\ pc[c] = "frontier"
    /\ idx[c] < n_points
    /\ LET o == solver[idx[c]]
           result == MinimizeRisks(o, budget[c])
       IN  IF o.kind = "raise"
           THEN /\ log' = [log EXCEPT
                             ![c] = Append(@, LogEntry(idx[c], "error"))]
                /\ UNCHANGED ef
           ELSE IF result["optimization_success"]
           THEN /\ ef' = [ef EXCEPT ![c] =
                            Append(@, InstancePortfolio(c, idx[c], result,
                                                        budget[c]))]
                /\ log' = [log EXCEPT
                             ![c] = Append(@, LogEntry(idx[c], "added"))]
           ELSE /\ log' = [log EXCEPT
                             ![c] = Append(@, LogEntry(idx[c], "failed"))]
                /\ UNCHANGED ef
    /\ idx' = [idx EXCEPT ![c] = @ + 1]
    /\ UNCHANGED <<other_vars, optimizer_vars, budget, pc, scan_i,
                   max_sharpe_ratio, portfolio_index, outcome>>

\* mutant of FrontierReturn: no check for an empty frontier
FrontierReturnNoCheck(c) ==
    /\ pc[c] = "frontier"
    /\ idx[c] = n_points
    /\ pc' = [pc EXCEPT ![c] = "scan"]
    /\ max_sharpe_ratio' = [max_sharpe_ratio EXCEPT ![c] = NegInf]
    /\ portfolio_index' = [portfolio_index EXCEPT ![c] = 0 - 1]
    /\ scan_i' = [scan_i EXCEPT ![c] = 0]
    /\ UNCHANGED <<other_vars, optimizer_vars, budget, idx, ef, log, outcome>>

\* efficient_frontier returns; the empty-frontier check and the set-up of
\* the Sharpe scan (lines 222-250)
FrontierReturn(c) ==
    /\ pc[c] = "frontier"
    /\ idx[c] = n_points
    /\ IF ef[c] = <<>>
       THEN /\ outcome' = [outcome EXCEPT
                             ![c] = Raised("Efficient frontier is empty")]
            /\ pc' = [pc EXCEPT ![c] = "done"]
       ELSE /\ pc' = [pc EXCEPT ![c] = "scan"]
            /\ UNCHANGED outcome
    /\ max_sharpe_ratio' = [max_sharpe_ratio EXCEPT ![c] = NegInf]
    /\ portfolio_index' = [portfolio_index EXCEPT ![c] = 0 - 1]
    /\ scan_i' = [scan_i EXCEPT ![c] = 0]
    /\ UNCHANGED <<other_vars, optimizer_vars, budget, idx, ef, log>>

\* mutant of Improves: every point with a ratio replaces the best
ImprovesAlways(portfolio, best) == portfolio.std # 0

\* mutant of Improves: no skip of a zero standard deviation
ImprovesNoSkip(portfolio, best) ==
    Greater(SharpeRatio(portfolio.target_return, portfolio.std), best)

\* does the scan take the point as the new best (lines 257-264)
Improves(portfolio, best) ==
    /\ portfolio.std # 0
    /\ Greater(SharpeRatio(portfolio.target_return, portfolio.std), best)

\* one iteration of the Sharpe scan (lines 252-270)
SharpeScan(c) ==
    /\ pc[c] = "scan"
    /\ scan_i[c] < Len(ef[c])
    /\ LET portfolio == ef[c][scan_i[c] + 1]
       IN  IF Improves(portfolio, max_sharpe_ratio[c])
           THEN /\ max_sharpe_ratio' = [max_sharpe_ratio EXCEPT ![c] =
                      SharpeRatio(portfolio.target_return, portfolio.std)]
                /\ portfolio_index' = [portfolio_index EXCEPT
                                         ![c] = scan_i[c]]
           ELSE UNCHANGED <<max_sharpe_ratio, portfolio_index>>
    /\ scan_i' = [scan_i EXCEPT ![c] = @ + 1]
    /\ UNCHANGED <<other_vars, optimizer_vars, budget, pc, idx, ef, outcome,
                   log>>

\* allocation_budget = {k: v * float(budget) for k, v in weights.items()}
AllocationBudget(weights, b) == [k \in DOMAIN weights |-> weights[k] * b]

\* OptimizerResult(...) of lines 284-290 for the best point, or the
\* TypeError of None * np.sqrt(252) when the point lacks the key read for
\* the volatility
OptimizerResultOf(best_portfolio, ratio, b) ==
    IF VolatilityKey \notin DOMAIN best_portfolio
    THEN Raised("TypeError")
    ELSE Returned(
           [weights |-> best_portfolio.weights,
            sharpe_ratio |-> ratio,
            budget_allocation |->
               AllocationBudget(best_portfolio.weights, b),
            target_return |-> best_portfolio.target_return,
            volatility |-> best_portfolio[VolatilityKey]])

\* mutant of BuildResult: the result is stored where every call reads it
BuildResultShared(c) ==
    /\ pc[c] = "scan"
    /\ scan_i[c] = Len(ef[c])
    /\ outcome' = [d \in Calls |->
          IF portfolio_index[c] < 0
          THEN Raised("Could not find best portfolio")
          ELSE OptimizerResultOf(ef[c][portfolio_index[c] + 1],
                                 max_sharpe_ratio[c], budget[c])]
    /\ pc' = [pc EXCEPT ![c] = "done"]
    /\ UNCHANGED <<other_vars, optimizer_vars, budget, idx, ef, scan_i,
                   max_sharpe_ratio, portfolio_index, log>>

\* mutant of BuildResult: ef[portfolio_index] without the guard on the
\* index, so that index -1 reads the last frontier point
BuildResultNoGuard(c) ==
    /\ pc[c] = "scan"
    /\ scan_i[c] = Len(ef[c])
    /\ outcome' = [outcome EXCEPT ![c] =
          LET best_portfolio ==
                  IF portfolio_index[c] < 0 THEN ef[c][Len(ef[c])]
                  ELSE ef[c][portfolio_index[c] + 1]
          IN  OptimizerResultOf(best_portfolio, max_sharpe_ratio[c],
                                budget[c])]
    /\ pc' = [pc EXCEPT ![c] = "done"]
    /\ UNCHANGED <<other_vars, optimizer_vars, budget, idx, ef, scan_i,
                   max_sharpe_ratio, portfolio_index, log>>

\* the end of return_highest_sharpe_ratio (lines 272-296): pick the best
\* point, build the OptimizerResult or raise.  dict.get on a key the point
\* does not have gives None, and None * np.sqrt(252) raises TypeError.
BuildResult(c) ==
    /\ pc[c] = "scan"
    /\ scan_i[c] = Len(ef[c])
    /\ outcome' = [outcome EXCEPT ![c] =
          IF portfolio_index[c] < 0
          THEN Raised("Could not find best portfolio")
          ELSE LET best_portfolio == ef[c][portfolio_index[c] + 1]
               IN  OptimizerResultOf(best_portfolio, max_sharpe_ratio[c],
                                     budget[c])]
    /\ pc' = [pc EXCEPT ![c] = "done"]
    /\ UNCHANGED <<other_vars, optimizer_vars, budget, idx, ef, scan_i,
                   max_sharpe_ratio, portfolio_index, log>>

Next ==
    \E c \in Calls :
        \/ FrontierPoint(c)
        \/ FrontierReturn(c)
        \/ SharpeScan(c)
        \/ BuildResult(c)

Spec == Init /\ [][Next]_vars

\* the requests from their arrival on
NextRequest ==
    \E c \in Calls :
        \/ OptimizePortfolio(c)
        \/ FrontierPoint(c)
        \/ FrontierReturn(c)
        \/ SharpeScan(c)
        \/ BuildResult(c)

SpecRequest == InitRequest /\ [][NextRequest]_vars

\* ------------------------------------------------------------- properties
\* the Sharpe scan of call c has seen every frontier point
ScanFinished(c) ==
    \/ pc[c] = "done"
    \/ pc[c] = "scan" /\ scan_i[c] = Len(ef[c])

\* Sharpe ratio of the k-th frontier point of call c
Ratio(c, k) == SharpeRatio(ef[c][k].target_return, ef[c][k].std)

\* the frontier point the scan of call c selected
Selected(c) == ef[c][portfolio_index[c] + 1]

\* order of two ratios with positive denominators, as rational numbers
Exceeds(a, b) == a.num * b.den > b.num * a.den

HasUsablePoint(c) == \E k \in 1..Len(ef[c]) : ef[c][k].std > 0

\* C1: whenever the frontier holds a point with std > 0 the call returns a
\* complete OptimizerResult instead of raising.
C1_ReturnsWhenFrontierUsable ==
    \A c \in Calls :
        (pc[c] = "done" /\ HasUsablePoint(c))
            => outcome[c].kind = "returned"

\* C2: the volatility of the result of a call that selected a point is the
\* standard deviation of that point (times sqrt(252), kept symbolic).
C2_VolatilityIsAnnualisedStd ==
    \A c \in Calls :
        (pc[c] = "done" /\ portfolio_index[c] >= 0)
            => /\ outcome[c].kind = "returned"
               /\ outcome[c].result.volatility = Selected(c).std

\* C3: after the scan a point is selected whenever some point has std > 0,
\* and no frontier point with std > 0 has a Sharpe ratio above the
\* selected point's.
C3_SelectedSharpeIsMaximal ==
    \A c \in Calls :
        ScanFinished(c) =>
            \A k \in 1..Len(ef[c]) :
                ef[c][k].std > 0 =>
                    /\ portfolio_index[c] >= 0
                    /\ ~Exceeds(Ratio(c, k), Ratio(c, portfolio_index[c] + 1))

\* a call whose scan moved the best from the first point to a later one
C3_Witness ==
    \E c \in Calls :
        /\ pc[c] = "done"
        /\ portfolio_index[c] >= 1
        /\ ef[c][1].std > 0
        /\ Exceeds(Ratio(c, portfolio_index[c] + 1), Ratio(c, 1))

\* C4: among the points with std > 0 that attain the maximum Sharpe ratio
\* the selected one has the least index, and so no greater target return.
C4_FirstMaximumWins ==
    \A c \in Calls :
        (ScanFinished(c) /\ portfolio_index[c] >= 0) =>
            \A k \in 1..Len(ef[c]) :
                (/\ ef[c][k].std > 0
                 /\ ~Exceeds(Ratio(c, portfolio_index[c] + 1), Ratio(c, k)))
                    => /\ k >= portfolio_index[c] + 1
                       /\ ef[c][k].target_return >= Selected(c).target_return

\* a finished scan with a later point tying the selected one
C4_Witness ==
    \E c \in Calls :
        /\ pc[c] = "done"
        /\ portfolio_index[c] >= 0
        /\ \E k \in (portfolio_index[c] + 2)..Len(ef[c]) :
              /\ ef[c][k].std > 0
              /\ ~Exceeds(Ratio(c, portfolio_index[c] + 1), Ratio(c, k))
              /\ ~Exceeds(Ratio(c, k), Ratio(c, portfolio_index[c] + 1))

\* C5: a frontier point with std = 0 is never the selected point.
C5_ZeroStdNeverSelected ==
    \A c \in Calls :
        \A k \in 1..Len(ef[c]) :
            ef[c][k].std = 0 => portfolio_index[c] # k - 1

\* a finished scan that met a zero-std point after it had a best point
C5_Witness ==
    \E c \in Calls :
        /\ pc[c] = "done"
        /\ portfolio_index[c] >= 0
        /\ \E k \in (portfolio_index[c] + 2)..Len(ef[c]) : ef[c][k].std = 0

\* grid index of the k-th frontier point: the k-th target the solver
\* converged on
GridIndexOf(k) ==
    CHOOSE g \in 0..(n_points - 1) :
        /\ solver[g].kind = "success"
        /\ Cardinality({h \in 0..g : solver[h].kind = "success"}) = k

RECURSIVE SumOver(_, _)
SumOver(f, S) ==
    IF S = {} THEN 0
    ELSE LET t == CHOOSE u \in S : TRUE IN f[t] + SumOver(f, S \ {t})

\* C6: with budget 0 every frontier point holds the solver's fractional
\* weights w, as it does for a positive budget.
C6_ZeroBudgetKeepsWeights ==
    \A c \in Calls :
        budget[c] = 0 =>
            \A k \in 1..Len(ef[c]) :
                \A p \in 1..n :
                    ef[c][k].weights[tickers[p]] = solver[GridIndexOf(k)].x[p]

\* C7: two calls on the same data, one with budget 0 and one with a positive
\* budget, select the same index, with the same target return and the same
\* Sharpe ratio, and end the same way.
C7_SelectionIndependentOfBudget ==
    \A c, d \in Calls :
        (/\ budget[c] = 0 /\ budget[d] > 0
         /\ ScanFinished(c) /\ ScanFinished(d)) =>
            /\ portfolio_index[c] = portfolio_index[d]
            /\ max_sharpe_ratio[c] = max_sharpe_ratio[d]
            /\ portfolio_index[c] >= 0 =>
                  Selected(c).target_return = Selected(d).target_return
            /\ (pc[c] = "done" /\ pc[d] = "done") => outcome[c] = outcome[d]

\* both calls finished, budgets 0 and positive, the best point found after
\* the first one
C7_Witness ==
    \E c, d \in Calls :
        /\ budget[c] = 0 /\ budget[d] > 0
        /\ pc[c] = "done" /\ pc[d] = "done"
        /\ portfolio_index[c] >= 1
        /\ portfolio_index[d] >= 1

\* C8: a call that selected a point returns a result whose
\* budget_allocation has the tickers of weights and, per ticker, the
\* weight times the budget.
C8_AllocationIsWeightTimesBudget ==
    \A c \in Calls :
        (pc[c] = "done" /\ portfolio_index[c] >= 0) =>
            /\ outcome[c].kind = "returned"
            /\ DOMAIN outcome[c].result.budget_allocation
                 = DOMAIN outcome[c].result.weights
            /\ \A t \in DOMAIN outcome[c].result.weights :
                  outcome[c].result.budget_allocation[t]
                    = outcome[c].result.weights[t] * budget[c]

\* C9: for every non-negative budget the weights of every frontier point
\* sum to 1 (n units of 1/n).
C9_WeightsSumToOne ==
    \A c \in Calls :
        budget[c] >= 0 =>
            \A k \in 1..Len(ef[c]) :
                SumOver(ef[c][k].weights, DOMAIN ef[c][k].weights) = n

\* C10: without short selling no frontier point has a negative weight,
\* whatever the budget.
C10_NoNegativeWeightWithoutShort ==
    ~allow_short =>
        \A c \in Calls :
            \A k \in 1..Len(ef[c]) :
                \A t \in DOMAIN ef[c][k].weights : ef[c][k].weights[t] >= 0

\* grid indices among the first m whose solve reported success
Solved(m) == {g \in 0..(m - 1) : solver[g].kind = "success"}

\* the event the loop records for a solver answer
EventOf(kind) ==
    IF kind = "success" THEN "added"
    ELSE IF kind = "noconv" THEN "failed" ELSE "error"

\* C11: every grid target is attempted whatever happened before it, each
\* dropped point is logged, and the frontier holds exactly the points whose
\* solve reported success.
C11_DroppedPointsDoNotStopTheLoop ==
    \A c \in Calls :
        /\ pc[c] # "frontier" => idx[c] = n_points
        /\ Len(log[c]) = idx[c]
        /\ \A k \in 1..Len(log[c]) :
              /\ log[c][k].point = k - 1
              /\ log[c][k].event = EventOf(solver[k - 1].kind)
        /\ Len(ef[c]) = Cardinality(Solved(idx[c]))
        /\ \A k \in 1..Len(ef[c]) :
              budget[c] > 0 =>
                  \A p \in 1..n :
                      ef[c][k].weights[tickers[p]]
                        = solver[GridIndexOf(k)].x[p]

\* a finished loop that met an exception at the first target and still
\* added a later point
C11_Witness ==
    \E c \in Calls :
        /\ pc[c] = "done"
        /\ solver[0].kind = "raise"
        /\ Len(ef[c]) >= 1
        /\ budget[c] > 0

\* lowest and highest single-asset mean return
LowestMean ==
    CHOOSE m \in RangeOf(mean_returns) :
        \A x \in RangeOf(mean_returns) : m <= x

HighestMean ==
    CHOOSE m \in RangeOf(mean_returns) :
        \A x \in RangeOf(mean_returns) : m >= x

\* the g-th of n_points values linearly spaced from the lowest to the
\* highest mean, as a numerator over GridDen
LinearGrid(g) == LowestMean * GridDen + g * (HighestMean - LowestMean)

\* C12: the target returns of the frontier are the grid values of the
\* solved targets in grid order: non-decreasing, each between the lowest
\* and the highest mean return.
C12_TargetsAreGridSubsequence ==
    \A c \in Calls :
        \A k \in 1..Len(ef[c]) :
            /\ ef[c][k].target_return = LinearGrid(GridIndexOf(k))
            /\ ef[c][k].target_return >= LowestMean * GridDen
            /\ ef[c][k].target_return <= HighestMean * GridDen
            /\ k < Len(ef[c]) =>
                  ef[c][k].target_return <= ef[c][k + 1].target_return

\* a returned frontier with two points of different target returns
C12_Witness ==
    \E c \in Calls :
        /\ pc[c] # "frontier"
        /\ Len(ef[c]) >= 2
        /\ ef[c][1].target_return < ef[c][2].target_return

\* C13: when no grid point converges the call fails with the empty-frontier
\* error, before any Sharpe ratio is computed, and returns no result.
C13_EmptyFrontierError ==
    \A c \in Calls :
        (pc[c] = "done" /\ Solved(n_points) = {}) =>
            /\ outcome[c] = Raised("Efficient frontier is empty")
            /\ scan_i[c] = 0
            /\ max_sharpe_ratio[c] = NegInf
            /\ portfolio_index[c] = 0 - 1

\* a finished call none of whose solves converged
C13_Witness ==
    \E c \in Calls :
        /\ pc[c] = "done"
        /\ Solved(n_points) = {}
        /\ \E g \in 0..(n_points - 1) : solver[g].kind = "noconv"

\* C14: when the frontier is not empty but no point has a positive standard
\* deviation the call fails with the no-valid-portfolio error, which is not
\* the empty-frontier error, and returns no result.
C14_NoValidPortfolioError ==
    \A c \in Calls :
        (pc[c] = "done" /\ ef[c] # <<>> /\ ~HasUsablePoint(c)) =>
            /\ outcome[c] = Raised("Could not find best portfolio")
            /\ outcome[c] # Raised("Efficient frontier is empty")

\* a finished call whose frontier has points, all of them with std = 0
C14_Witness ==
    \E c \in Calls :
        /\ pc[c] = "done"
        /\ Len(ef[c]) >= 1
        /\ \A k \in 1..Len(ef[c]) : ef[c][k].std = 0

\* C15: for a single ticker the optimizer yields weight 1.0 for it and the
\* asset's own variance, whatever the solver answers at the grid points.
C15_SingleTickerNeedsNoSolver ==
    \A c \in Calls :
        (n = 1 /\ budget[c] > 0 /\ pc[c] = "done") =>
            /\ portfolio_index[c] >= 0
            /\ Selected(c).weights[tickers[1]] = 1
            /\ Selected(c).variance = cov[1][1]

\* C16: with n_points = 1 the grid is the single target equal to the lowest
\* mean return, the frontier has at most that point, and a call whose point
\* is usable returns an OptimizerResult.
C16_SinglePointGridGivesResult ==
    \A c \in Calls :
        (n_points = 1 /\ pc[c] = "done") =>
            /\ Len(ef[c]) <= 1
            /\ \A k \in 1..Len(ef[c]) :
                  ef[c][k].target_return = LowestMean
            /\ HasUsablePoint(c) => outcome[c].kind = "returned"

\* C17: a price table with fewer than 2 rows left gives no optimizer: the
\* construction fails and the frontier solver never runs on it.
C17_TooFewRowsRejected ==
    \A c \in Calls :
        (download[c].kind = "table" /\ download[c].rows < 2) =>
            /\ instance[c] = "none"
            /\ pc[c] = "done"
            /\ outcome[c].kind = "raised"
            /\ idx[c] = 0

\* C18: when the download raises or returns data without the price column
\* no optimizer is built, nothing of the optimization runs, and the
\* endpoint answers with status 500 carrying the failure message.
C18_DownloadFailureReachesCaller ==
    \A c \in Calls :
        download[c].kind \in {"raise", "malformed"} =>
            /\ instance[c] = "none"
            /\ pc[c] = "done"
            /\ idx[c] = 0 /\ ef[c] = <<>> /\ log[c] = <<>>
            /\ outcome[c] = Raised(DownloadError(download[c]))
            /\ OptimizeResponse(c)
                 = [status |-> 500, body |-> DownloadError(download[c])]

\* a request whose download returned malformed data, next to a request that
\* got its optimizer
C18_Witness ==
    \E c, d \in Calls :
        /\ download[c].kind = "malformed"
        /\ pc[c] = "done"
        /\ instance[d] = "built"

\* what one call run alone computes from its own inputs: the frontier after
\* m grid targets, the scan after k frontier points, the final outcome
RECURSIVE SoloFrontier(_, _)
SoloFrontier(c, m) ==
    IF m = 0 THEN <<>>
    ELSE LET prev == SoloFrontier(c, m - 1)
             o == solver[m - 1]
         IN  IF o.kind = "success"
             THEN Append(prev, InstancePortfolio(c, m - 1,
                                 MinimizeRisks(o, budget[c]), budget[c]))
             ELSE prev

RECURSIVE SoloScan(_, _)
SoloScan(f, k) ==
    IF k = 0 THEN [index |-> 0 - 1, best |-> NegInf]
    ELSE LET prev == SoloScan(f, k - 1)
         IN  IF Improves(f[k], prev.best)
             THEN [index |-> k - 1,
                   best |-> SharpeRatio(f[k].target_return, f[k].std)]
             ELSE prev

SoloOutcome(c) ==
    IF download[c].kind # "table" THEN Raised(DownloadError(download[c]))
    ELSE LET f == SoloFrontier(c, n_points)
             s == SoloScan(f, Len(f))
         IN  IF f = <<>> THEN Raised("Efficient frontier is empty")
             ELSE IF s.index < 0
             THEN Raised("Could not find best portfolio")
             ELSE OptimizerResultOf(f[s.index + 1], s.best, budget[c])

\* everything that belongs to one request
CallState(c) ==
    <<budget[c], pc[c], idx[c], ef[c], scan_i[c], max_sharpe_ratio[c],
      portfolio_index[c], outcome[c], log[c], download[c], instance[c]>>

\* each call is where a run alone would be after the same number of steps
MatchesSoloRun ==
    \A c \in Calls :
        /\ pc[c] # "request" => download[c].kind # "none"
        /\ ef[c] = SoloFrontier(c, idx[c])
        /\ portfolio_index[c] = SoloScan(ef[c], scan_i[c]).index
        /\ max_sharpe_ratio[c] = SoloScan(ef[c], scan_i[c]).best
        /\ pc[c] = "done" => outcome[c] = SoloOutcome(c)

\* a step belongs to one request: it leaves the other request and the
\* data of the optimizers as they are
StepOfOneCall ==
    \E c \in Calls :
        /\ \A d \in Calls \ {c} : CallState(d)' = CallState(d)
        /\ UNCHANGED <<tickers, mean_returns, cov, allow_short, solver,
                       n_points>>

SameInputs(c, d) ==
    /\ budget[c] = budget[d]
    /\ download[c] = download[d]

AnnualRate == 3 * 252

\* C22: the Sharpe ratio kept for the selected point, the value handed to
\* OptimizerResult as sharpe_ratio, is (target_return - rate / 252) / std,
\* where target_return is the grid target stored in the point, whatever
\* return the weights realise.
C22_SharpeFromStoredTarget ==
    \A c \in Calls :
        (ScanFinished(c) /\ portfolio_index[c] >= 0) =>
            LET k == portfolio_index[c] + 1
                g == GridIndexOf(k)
            IN  /\ ef[c][k].target_return = LinearGrid(g)
                /\ ef[c][k].std > 0
                /\ max_sharpe_ratio[c].den = ef[c][k].std
                /\ max_sharpe_ratio[c].num
                     = LinearGrid(g) - (AnnualRate \div 252) * GridDen

\* a finished call whose selected point has weights that realise a return
\* other than the stored target
C22_Witness ==
    \E c \in Calls :
        /\ pc[c] = "done"
        /\ portfolio_index[c] >= 0
        /\ LET g == GridIndexOf(portfolio_index[c] + 1)
           IN  Dot(mean_returns, solver[g].x) * GridDen
                 # ef[c][portfolio_index[c] + 1].target_return * n

\* every frontier point is what the solve of its own grid target gives,
\* started from the equal weights: nothing of it comes from another target
PointsSolvedAlone ==
    \A c \in Calls :
        \A k \in 1..Len(ef[c]) :
            LET x == solver[GridIndexOf(k)].x
            IN  /\ ef[c][k].target_return = LinearGrid(GridIndexOf(k))
                /\ ef[c][k].variance
                     = SumSeq([r \in 1..n |->
                         SumSeq([q \in 1..n |-> x[r] * cov[r][q] * x[q]])])
                /\ budget[c] > 0 =>
                      \A p \in 1..n : ef[c][k].weights[tickers[p]] = x[p]

\* C23: no step of efficient_frontier or of the Sharpe selection changes
\* tickers, mean_returns or cov (and so n), and every frontier point is the
\* result of its own target solved from the equal-weight guess, whatever
\* happened at the targets before it.
C23_NoStateBetweenPoints ==
    /\ []PointsSolvedAlone
    /\ [][UNCHANGED <<tickers, mean_returns, cov>>]_vars

\* a finished call whose frontier holds two points with different weights,
\* and a second frontier built on the same optimizer data
C23_Witness ==
    \E c, d \in Calls :
        /\ c # d
        /\ pc[c] = "done" /\ idx[d] = n_points
        /\ budget[c] > 0
        /\ Len(ef[c]) >= 2
        /\ solver[0].x # solver[1].x

\* C26: the weights of every frontier point have exactly the tickers as
\* keys, none of the statistic keys, and hold for tickers[i] the weight
\* w[i] the solver returned.
C26_WeightsKeyedByTicker ==
    \A c \in Calls :
        \A k \in 1..Len(ef[c]) :
            /\ DOMAIN ef[c][k].weights = RangeOf(tickers)
            /\ DOMAIN ef[c][k].weights \cap StatKeys = {}
            /\ \A p \in 1..n :
                  ef[c][k].weights[tickers[p]] = solver[GridIndexOf(k)].x[p]

\* ---------------------------------------- the construction of an optimizer
\* PortfolioOptimizer.__init__ with __extract_data and __normalize_data,
\* one step per statement group.  A ticker is a string, kept as the
\* sequence of its pieces so that the suffix can be added and replaced;
\* ".SR" is the piece the Saudi market adds.
TickerNames == {<<"A">>, <<"B">>, <<"A", ".SR">>}

\* the tickers of a request: one ticker or two different ones, in any order
TickerLists ==
    {<<a>> : a \in TickerNames}
      \cup {pair \in TickerNames \X TickerNames : pair[1] # pair[2]}

\* the values of StockMarket
Markets == {"US", "SR"}

\* f"{ticker}.{self.stock_market.value}" for the Saudi market, else ticker
FormatTicker(ticker, market) ==
    IF market = "SR" THEN Append(ticker, ".SR") ELSE ticker

\* col.replace(f".{self.stock_market.value}", ""): every occurrence goes
RemoveSuffix(col) == SelectSeq(col, LAMBDA piece : piece # ".SR")

\* the orders in which the provider may lay out the columns it was asked
ColumnOrders(asked) ==
    {[i \in 1..Len(asked) |-> asked[f[i]]] :
        f \in {g \in [1..Len(asked) -> 1..Len(asked)] :
                  \A i, j \in 1..Len(asked) : i # j => g[i] # g[j]}}

\* the price the provider has for its j-th column on date d
Price(j, d) == 10 * j + d

\* data['Close'] for the columns cols: dates 1..r, each cell a price or nan
CloseTables(cols) ==
    {[columns |-> cols,
      index |-> [d \in 1..r |-> d],
      cells |-> [d \in 1..r |->
                   [j \in 1..Len(cols) |->
                       IF observed[d][j] THEN Price(j, d) ELSE NaN]]] :
        r \in 1..MaxDates,
        observed \in [1..MaxDates -> [1..Len(cols) -> BOOLEAN]]}

\* the most recent value of column j at or before row r, nan if none
RECURSIVE LastObserved(_, _, _)
LastObserved(cells, r, j) ==
    IF r = 0 THEN NaN
    ELSE IF cells[r][j] # NaN THEN cells[r][j]
    ELSE LastObserved(cells, r - 1, j)

\* mutant of Ffill: gaps are filled from the next observation
RECURSIVE NextObserved(_, _, _)
NextObserved(cells, r, j) ==
    IF r > Len(cells) THEN NaN
    ELSE IF cells[r][j] # NaN THEN cells[r][j]
    ELSE NextObserved(cells, r + 1, j)

Bfill(df) ==
    [df EXCEPT !.cells =
        [r \in 1..Len(df.cells) |->
            [j \in 1..Len(df.columns) |-> NextObserved(df.cells, r, j)]]]

\* DataFrame.ffill()
Ffill(df) ==
    [df EXCEPT !.cells =
        [r \in 1..Len(df.cells) |->
            [j \in 1..Len(df.columns) |-> LastObserved(df.cells, r, j)]]]

\* the positions of the rows without a nan, in order
CompleteRows(df) ==
    SelectSeq([r \in 1..Len(df.cells) |-> r],
              LAMBDA r : \A j \in 1..Len(df.columns) : df.cells[r][j] # NaN)

\* DataFrame.dropna(): rows with a nan in any column go
DropNa(df) ==
    LET kept == CompleteRows(df)
    IN  [columns |-> df.columns,
         index |-> [k \in 1..Len(kept) |-> df.index[kept[k]]],
         cells |-> [k \in 1..Len(kept) |-> df.cells[kept[k]]]]

\* DataFrame.pct_change(): the change to the row before, in percent; the
\* first row has none
PctChange(df) ==
    [df EXCEPT !.cells =
        [r \in 1..Len(df.cells) |->
            [j \in 1..Len(df.columns) |->
                IF r = 1 THEN NaN
                ELSE IF df.cells[r][j] = NaN \/ df.cells[r - 1][j] = NaN
                THEN NaN
                ELSE ((df.cells[r][j] - df.cells[r - 1][j]) * 100)
                        \div df.cells[r - 1][j]]]]

\* a caller hands tickers and a market to PortfolioOptimizer(...)
InitExtract ==
    /\ stage = "format"
    /\ req_tickers \in TickerLists
    /\ stock_market \in Markets
    /\ formatted_tickers = <<>>
    /\ data_close = NoTable
    /\ prices_df = NoTable
    /\ normalized_df = NoTable
    /\ stats = NoStats
    /\ OptimizerIdle /\ AuthIdle /\ RouterIdle

\* lines 74-85: the tickers as they are sent to the provider
ExtractFormat ==
    /\ stage = "format"
    /\ formatted_tickers' =
          [i \in 1..Len(req_tickers) |->
              FormatTicker(req_tickers[i], stock_market)]
    /\ stage' = "download"
    /\ UNCHANGED <<req_tickers, stock_market, data_close, prices_df,
                   normalized_df, stats, optimizer_call_vars, auth_vars,
                   requests>>

\* line 91 and data['Close']: the provider raises, or answers with a table
\* whose columns are the symbols asked, in the order it chooses
ExtractDownload ==
    /\ stage = "download"
    /\ \/ /\ stage' = "raised"
          /\ UNCHANGED data_close
       \/ \E cols \in ColumnOrders(formatted_tickers) :
            \E t \in CloseTables(cols) :
               /\ data_close' = t
               /\ stage' = "close"
    /\ UNCHANGED <<req_tickers, stock_market, formatted_tickers, prices_df,
                   normalized_df, stats, optimizer_call_vars, auth_vars,
                   requests>>

\* lines 94-104: the column labels of prices_df
ExtractColumns ==
    /\ stage = "close"
    /\ prices_df' =
          [data_close EXCEPT !.columns =
              IF Len(req_tickers) = 1 THEN req_tickers
              ELSE IF stock_market = "SR"
              THEN [j \in 1..Len(@) |-> RemoveSuffix(@[j])]
              ELSE @]
    /\ stage' = "align"
    /\ UNCHANGED <<req_tickers, stock_market, formatted_tickers, data_close,
                   normalized_df, stats, optimizer_call_vars, auth_vars,
                   requests>>

\* line 107: prices_df.ffill().dropna()
ExtractAlign ==
    /\ stage = "align"
    /\ prices_df' = DropNa(Ffill(prices_df))
    /\ stage' = "normalize"
    /\ UNCHANGED <<req_tickers, stock_market, formatted_tickers, data_close,
                   normalized_df, stats, optimizer_call_vars, auth_vars,
                   requests>>

\* __normalize_data, line 117: tickers_df.pct_change().dropna()
NormalizeData ==
    /\ stage = "normalize"
    /\ normalized_df' = DropNa(PctChange(prices_df))
    /\ stage' = "statistics"
    /\ UNCHANGED <<req_tickers, stock_market, formatted_tickers, data_close,
                   prices_df, stats, optimizer_call_vars, auth_vars,
                   requests>>

\* lines 53-59: mean_returns holds, per ticker in the caller's order, the
\* mean of the column with that label (KeyError if there is none); cov is
\* the covariance of the columns in the order of the table
Statistics ==
    /\ stage = "statistics"
    /\ IF \E i \in 1..Len(req_tickers) :
             req_tickers[i] \notin RangeOf(normalized_df.columns)
       THEN /\ stage' = "raised"
            /\ UNCHANGED stats
       ELSE /\ stats' = [mean_of |-> req_tickers,
                         cov_of |-> normalized_df.columns]
            /\ stage' = "built"
    /\ UNCHANGED <<req_tickers, stock_market, formatted_tickers, data_close,
                   prices_df, normalized_df, optimizer_call_vars, auth_vars,
                   requests>>

NextExtract ==
    \/ ExtractFormat
    \/ ExtractDownload
    \/ ExtractColumns
    \/ ExtractAlign
    \/ NormalizeData
    \/ Statistics

SpecExtract == InitExtract /\ [][NextExtract]_vars

\* the alignment of line 107 has run
Aligned == stage \in {"normalize", "statistics", "built"}

\* dates at or before d on which the provider had a price for column j
ObservedUpTo(j, d) == {e \in 1..d : data_close.cells[e][j] # NaN}

\* dates from which on every column has had a price
CompleteDates ==
    {d \in 1..Len(data_close.cells) :
        \A j \in 1..Len(data_close.columns) : ObservedUpTo(j, d) # {}}

Latest(S) == CHOOSE e \in S : \A f \in S : f <= e

\* C21: after the alignment every remaining row has a price for every
\* ticker; a gap holds the ticker's latest earlier price; the rows dropped
\* are exactly those before some ticker's first price; the dates keep their
\* order.
C21_NoPartialRowSurvives ==
    Aligned =>
        /\ Len(prices_df.index) = Cardinality(CompleteDates)
        /\ Len(prices_df.cells) = Len(prices_df.index)
        /\ {prices_df.index[k] : k \in 1..Len(prices_df.index)}
             = CompleteDates
        /\ \A k \in 1..(Len(prices_df.index) - 1) :
              prices_df.index[k] < prices_df.index[k + 1]
        /\ \A k \in 1..Len(prices_df.cells) :
              \A j \in 1..Len(prices_df.columns) :
                 /\ prices_df.cells[k][j] # NaN
                 /\ prices_df.cells[k][j]
                      = data_close.cells
                          [Latest(ObservedUpTo(j, prices_df.index[k]))][j]

\* an aligned table that lost a leading row and had a gap filled
C21_Witness ==
    /\ Aligned
    /\ Len(prices_df.index) >= 2
    /\ Len(prices_df.index) < Len(data_close.index)
    /\ \E k \in 1..Len(prices_df.index) :
          \E j \in 1..Len(prices_df.columns) :
             data_close.cells[prices_df.index[k]][j] = NaN

\* C24: in a constructed optimizer position i of mean_returns and row and
\* column i of cov belong to the same asset, tickers[i].
C24_MeanAndCovSameOrder ==
    stage = "built" =>
        /\ Len(stats.mean_of) = Len(req_tickers)
        /\ Len(stats.cov_of) = Len(req_tickers)
        /\ \A i \in 1..Len(req_tickers) :
              /\ stats.mean_of[i] = req_tickers[i]
              /\ stats.cov_of[i] = req_tickers[i]

\* C25: the tickers are sent with the suffix of the Saudi market and
\* unchanged otherwise, and the columns of the price table carry exactly
\* the tickers of the caller.
C25_TickerFormatRoundTrips ==
    /\ stage \notin {"idle", "format"} =>
          \A i \in 1..Len(req_tickers) :
             formatted_tickers[i]
               = IF stock_market = "SR" THEN req_tickers[i] \o <<".SR">>
                 ELSE req_tickers[i]
    /\ prices_df # NoTable =>
          /\ Len(prices_df.columns) = Len(req_tickers)
          /\ {prices_df.columns[j] : j \in 1..Len(prices_df.columns)}
               = {req_tickers[i] : i \in 1..Len(req_tickers)}

\* ------------------------------------------------ the authentication routes
\* app/auth.py and app/routes/auth.py.  The user table is a set of rows;
\* the clock counts hours; a handler runs as one step.
Emails == {"a@x.io", "b@x.io"}
Usernames == {"ann", "bob"}
Passwords == {"password1", "password2"}

\* get_password_hash: an argon2 hash, here the tag and what was hashed
GetPasswordHash(password) == <<"argon2", password>>

\* a stored value that is no argon2 hash (verify raises InvalidHash)
NotAHash == <<"plain", "password1">>

\* mutant of VerifyPassword: a stored value that is no hash is accepted
VerifyPasswordLenient(plain_password, hashed_password) ==
    \/ hashed_password = GetPasswordHash(plain_password)
    \/ hashed_password[1] # "argon2"

\* verify_password: True on a match, False on a mismatch or an invalid hash
VerifyPassword(plain_password, hashed_password) ==
    hashed_password = GetPasswordHash(plain_password)

\* str(user_id) and int(sub): the decimal strings of the ids
DecimalStrings == <<"1", "2", "3">>
StrOf(id) == DecimalStrings[id]
IsDecimal(sub) == \E i \in 1..Len(DecimalStrings) : DecimalStrings[i] = sub
IntOf(sub) == CHOOSE i \in 1..Len(DecimalStrings) : DecimalStrings[i] = sub

\* payload.get("sub") of a token without a subject
NoSub == "<none>"

\* create_access_token / create_refresh_token at hour t: the payload, signed
\* with SECRET_KEY
CreateAccessToken(sub, t) ==
    [sub |-> sub, type |-> "access", exp |-> t + AccessTokenExpire,
     signed |-> TRUE]

CreateRefreshToken(sub, t) ==
    [sub |-> sub, type |-> "refresh", exp |-> t + RefreshTokenExpire,
     signed |-> TRUE]

\* mutant of GenerateTokens: both tokens are made as access tokens
GenerateTokensBothAccess(user_id, t) ==
    [access_token |-> CreateAccessToken(StrOf(user_id), t),
     refresh_token |->
        [CreateRefreshToken(StrOf(user_id), t) EXCEPT !.type = "access"]]

\* generate_tokens(user_id) at hour t
GenerateTokens(user_id, t) ==
    [access_token |-> CreateAccessToken(StrOf(user_id), t),
     refresh_token |-> CreateRefreshToken(StrOf(user_id), t)]

\* what a client can put after "Bearer": a payload signed with SECRET_KEY
\* (the tokens of generate_tokens among them), or a token whose signature
\* does not verify
BearerTokens ==
    [sub : {NoSub, "1", "2", "3", "x"},
     type : {"access", "refresh"},
     exp : 0..MaxTime,
     signed : {TRUE}]
      \cup {[sub |-> "1", type |-> "access", exp |-> MaxTime,
              signed |-> FALSE]}

\* the rows the table can hold when the routes start serving: none, or one
\* user who is active or not, or whose stored password is no hash
FirstUser ==
    [id |-> 1, email |-> "a@x.io", username |-> "ann",
     hashed_password |-> GetPasswordHash("password1"), is_active |-> TRUE]

InitialTables ==
    { {}, {FirstUser}, {[FirstUser EXCEPT !.is_active = FALSE]},
      {[FirstUser EXCEPT !.hashed_password = NotAHash]} }

\* db.query(User).filter(...).first(): the rows that match
UsersWhere(field, value) == {u \in users : u[field] = value}

\* the id the database gives the next row
NextId ==
    IF users = {} THEN 1
    ELSE 1 + (CHOOSE m \in {u.id : u \in users} :
                 \A k \in {u.id : u \in users} : k <= m)

\* mutant of GetCurrentUser: the type of the token is not looked at
GetCurrentUserAnyType(token) ==
    IF ~token.signed \/ token.exp < now
    THEN [status |-> 401, detail |-> "Could not validate credentials"]
    ELSE IF token.sub = NoSub
    THEN [status |-> 401, detail |-> "Could not validate credentials"]
    ELSE IF ~IsDecimal(token.sub)
    THEN [status |-> 500, detail |-> "ValueError"]
    ELSE LET found == UsersWhere("id", IntOf(token.sub))
         IN  IF found = {}
             THEN [status |-> 401,
                   detail |-> "Could not validate credentials"]
             ELSE LET user == CHOOSE u \in found : TRUE
                  IN  IF ~user.is_active
                      THEN [status |-> 403,
                            detail |-> "User account is inactive"]
                      ELSE [status |-> 200, user |-> user]

\* get_current_user (auth.py lines 55-83): jwt.decode raises JWTError for a
\* bad signature or a passed exp; int(sub) raises ValueError, which nothing
\* catches, for a subject that is no number
GetCurrentUser(token) ==
    IF ~token.signed \/ token.exp < now
    THEN [status |-> 401, detail |-> "Could not validate credentials"]
    ELSE IF token.sub = NoSub \/ token.type # "access"
    THEN [status |-> 401, detail |-> "Could not validate credentials"]
    ELSE IF ~IsDecimal(token.sub)
    THEN [status |-> 500, detail |-> "ValueError"]
    ELSE LET found == UsersWhere("id", IntOf(token.sub))
         IN  IF found = {}
             THEN [status |-> 401,
                   detail |-> "Could not validate credentials"]
             ELSE LET user == CHOOSE u \in found : TRUE
                  IN  IF ~user.is_active
                      THEN [status |-> 403,
                            detail |-> "User account is inactive"]
                      ELSE [status |-> 200, user |-> user]

\* the routes start serving
InitAuth ==
    /\ users \in InitialTables
    /\ now = 0
    /\ last = NoAnswer
    /\ OptimizerIdle /\ ExtractIdle /\ RouterIdle

\* datetime.utcnow() moves on
Tick ==
    /\ now < MaxTime
    /\ now' = now + 1
    /\ UNCHANGED <<users, last, optimizer_call_vars, extract_vars,
                   requests>>

\* mutant of Signup: the username is not looked up
SignupEmailOnly(email, username, password) ==
    LET request == [NoAnswer EXCEPT !.op = "sign-up", !.email = email,
                       !.username = username, !.password = password]
    IN
    /\ IF UsersWhere("email", email) # {}
       THEN /\ last' = [request EXCEPT !.status = 400,
                           !.detail = "Email already registered"]
            /\ UNCHANGED users
       ELSE \E committed, active \in BOOLEAN :
              IF committed
              THEN LET new_user ==
                          [id |-> NextId, email |-> email,
                           username |-> username,
                           hashed_password |-> GetPasswordHash(password),
                           is_active |-> active]
                       tokens == GenerateTokens(new_user.id, now)
                   IN  /\ users' = users \cup {new_user}
                       /\ last' = [request EXCEPT !.status = 201,
                                      !.tokens = tokens, !.ran = TRUE,
                                      !.user = new_user]
              ELSE /\ last' = [request EXCEPT !.status = 400,
                                  !.detail = "Could not create user"]
                   /\ UNCHANGED users
    /\ UNCHANGED <<now, optimizer_call_vars, extract_vars, requests>>

\* POST /sign-up (routes/auth.py lines 17-66).  The commit succeeds or the
\* database raises IntegrityError, after which the session is rolled back.
\* is_active of the new row is the default of the table.
Signup(email, username, password) ==
    LET request == [NoAnswer EXCEPT !.op = "sign-up", !.email = email,
                       !.username = username, !.password = password]
    IN
    /\ IF UsersWhere("email", email) # {}
       THEN /\ last' = [request EXCEPT !.status = 400,
                           !.detail = "Email already registered"]
            /\ UNCHANGED users
       ELSE IF UsersWhere("username", username) # {}
       THEN /\ last' = [request EXCEPT !.status = 400,
                           !.detail = "Username already taken"]
            /\ UNCHANGED users
       ELSE \E committed, active \in BOOLEAN :
              IF committed
              THEN LET new_user ==
                          [id |-> NextId, email |-> email,
                           username |-> username,
                           hashed_password |-> GetPasswordHash(password),
                           is_active |-> active]
                       tokens == GenerateTokens(new_user.id, now)
                   IN  /\ users' = users \cup {new_user}
                       /\ last' = [request EXCEPT !.status = 201,
                                      !.tokens = tokens, !.ran = TRUE,
                                      !.user = new_user]
              ELSE /\ last' = [request EXCEPT !.status = 400,
                                  !.detail = "Could not create user"]
                   /\ UNCHANGED users
    /\ UNCHANGED <<now, optimizer_call_vars, extract_vars, requests>>

\* POST /sign-in (routes/auth.py lines 68-95)
Signin(email, password) ==
    LET request == [NoAnswer EXCEPT !.op = "sign-in", !.email = email,
                       !.password = password]
        found == UsersWhere("email", email)
        user == CHOOSE u \in found : TRUE
    IN
    /\ IF found = {} \/ ~VerifyPassword(password, user.hashed_password)
       THEN last' = [request EXCEPT !.status = 401,
                        !.detail = "Invalid email or password"]
       ELSE IF ~user.is_active
       THEN last' = [request EXCEPT !.status = 403,
                        !.detail = "User account is inactive"]
       ELSE LET tokens == GenerateTokens(user.id, now)
            IN  last' = [request EXCEPT !.status = 200,
                            !.tokens = tokens, !.ran = TRUE,
                            !.user = user]
    /\ UNCHANGED <<users, now, optimizer_call_vars, extract_vars, requests>>

\* GET /me and POST /logout (routes/auth.py lines 97-109): the body runs
\* with the user that get_current_user returns, or not at all
Protected(op, token) ==
    LET request == [NoAnswer EXCEPT !.op = op, !.token = token]
        current == GetCurrentUser(token)
    IN
    /\ IF current.status = 200
       THEN last' = [request EXCEPT !.status = 200, !.ran = TRUE,
                        !.user = current.user]
       ELSE last' = [request EXCEPT !.status = current.status,
                        !.detail = current.detail]
    /\ UNCHANGED <<users, now, optimizer_call_vars, extract_vars,
                   requests>>

NextAuth ==
    \/ Tick
    \/ \E email \in Emails, username \in Usernames, password \in Passwords :
          Signup(email, username, password)
    \/ \E email \in Emails, password \in Passwords : Signin(email, password)
    \/ \E op \in {"me", "logout"}, token \in BearerTokens :
          Protected(op, token)

SpecAuth == InitAuth /\ [][NextAuth]_vars

\* a step that answers a request to /me or /logout
ProtectedStep ==
    /\ last' # last
    /\ last'.op \in {"me", "logout"}

\* the rows a token names by its subject
UsersNamedBy(token) ==
    {u \in users : u.id \in 1..Len(DecimalStrings)
                     /\ DecimalStrings[u.id] = token.sub}

\* C27: the body of /me or /logout runs only for a signed, unexpired access
\* token whose subject is an existing active user, and runs as that user; a
\* refresh token, a token without subject and a token of a user who is gone
\* are answered 401, a token of an inactive user 403.
C27_OnlyValidAccessTokensAuthenticate ==
    [][ProtectedStep =>
          LET token == last'.token
              valid == token.signed /\ token.exp >= now
          IN  /\ last'.ran <=> last'.status = 200
              /\ last'.ran =>
                    /\ valid
                    /\ token.type = "access"
                    /\ token.sub # NoSub
                    /\ \E u \in UsersNamedBy(token) :
                          u.is_active /\ last'.user = u
              /\ ~valid => last'.status = 401
              /\ (valid /\ (token.type = "refresh" \/ token.sub = NoSub))
                    => last'.status = 401
              /\ (valid /\ token.type = "access" /\ token.sub \in
                    {DecimalStrings[i] : i \in 1..Len(DecimalStrings)}
                  /\ UsersNamedBy(token) = {})
                    => last'.status = 401
              /\ (valid /\ token.type = "access"
                  /\ \E u \in UsersNamedBy(token) : ~u.is_active)
                    => last'.status = 403
       ]_vars

\* a signed, unexpired refresh token of an existing active user was
\* answered 401 and the route did not run
C27_Witness ==
    /\ last.op \in {"me", "logout"}
    /\ last.status = 401
    /\ ~last.ran
    /\ last.token.type = "refresh"
    /\ last.token.signed
    /\ last.token.exp >= now
    /\ \E u \in UsersNamedBy(last.token) : u.is_active

\* a step that answers a request to /sign-in
SigninStep ==
    /\ last' # last
    /\ last'.op = "sign-in"

\* the stored value is the argon2 hash of the password
HashOf(password, stored) ==
    Len(stored) = 2 /\ stored[1] = "argon2" /\ stored[2] = password

\* C28: /sign-in answers 200 with a token pair exactly when the email
\* belongs to an active user whose stored hash is that of the password; the
\* pair names that user.  An unknown email and a wrong password get the
\* same 401, an inactive user with the right password 403, and no failure
\* comes with tokens.
C28_SigninIssuesTokensOnlyOnSuccess ==
    [][SigninStep =>
          LET known == {u \in users : u.email = last'.email}
              right == {u \in known :
                           HashOf(last'.password, u.hashed_password)}
          IN  /\ last'.status \in {200, 401, 403}
              /\ last'.status = 200 <=> \E u \in right : u.is_active
              /\ last'.status = 200 =>
                    /\ last'.user \in right
                    /\ last'.user.is_active
                    /\ last'.tokens.access_token
                         = [sub |-> DecimalStrings[last'.user.id],
                            type |-> "access",
                            exp |-> now + AccessTokenExpire,
                            signed |-> TRUE]
                    /\ last'.tokens.refresh_token
                         = [sub |-> DecimalStrings[last'.user.id],
                            type |-> "refresh",
                            exp |-> now + RefreshTokenExpire,
                            signed |-> TRUE]
              /\ last'.status # 200 => last'.tokens = NoTokens
              /\ right = {} =>
                    /\ last'.status = 401
                    /\ last'.detail = "Invalid email or password"
              /\ (right # {} /\ \A u \in right : ~u.is_active) =>
                    last'.status = 403
       ]_vars

\* a user created by /sign-up signed in and got tokens that carry its id
C28_Witness ==
    /\ last.op = "sign-in"
    /\ last.status = 200
    /\ last.user.id = 2
    /\ last.tokens.access_token.sub = "2"
    /\ last.user \in users

\* a step that answers a request to /sign-up
SignupStep ==
    /\ last' # last
    /\ last'.op = "sign-up"

\* no two rows with the same email, username or id
UniqueUsers ==
    \A u, v \in users :
        (u.email = v.email \/ u.username = v.username \/ u.id = v.id)
            => u = v

\* C29: no two users ever share an email or a username.  A sign-up with a
\* registered email or username is answered 400; every 400, the one after
\* a failed commit included, leaves the table as it was and comes without
\* tokens; a 201 adds exactly the row asked for.
C29_SignupKeepsUsersUnique ==
    /\ []UniqueUsers
    /\ [][SignupStep =>
            LET taken == \E u \in users :
                            \/ u.email = last'.email
                            \/ u.username = last'.username
            IN  /\ last'.status \in {201, 400}
                /\ taken => last'.status = 400
                /\ last'.status = 400 =>
                      /\ users' = users
                      /\ last'.tokens = NoTokens
                /\ last'.status = 201 =>
                      /\ users' = users \cup {last'.user}
                      /\ last'.user \notin users
                      /\ last'.user.email = last'.email
                      /\ last'.user.username = last'.username
                      /\ last'.tokens.access_token.sub
                           = DecimalStrings[last'.user.id]
         ]_vars

\* a sign-up with a new email and a username that is taken was answered
\* 400, after an earlier sign-up had added a user
C29_Witness ==
    /\ \E u \in users : u.id = 1 /\ u.email = "b@x.io"
    /\ last.op = "sign-up"
    /\ last.status = 400
    /\ last.detail = "Username already taken"
    /\ \A u \in users : u.email # last.email

\* ------------------------------------------- the stock routes and markets
\* main_router.py: /screen, /optimize, /analyze and /report/pdf, seen from
\* the market string of the request body.
Endpoints == {"/screen", "/optimize", "/analyze", "/report/pdf"}

\* market strings a client can send
MarketStrings == {"US", "SR", "us", "sr", "EU"}

\* str.upper() on these strings
Upper(market_str) ==
    IF market_str = "us" THEN "US"
    ELSE IF market_str = "sr" THEN "SR"
    ELSE market_str

\* get_market_enum (lines 61-68): the member of the enum, or
\* HTTPException(400)
GetMarketEnum(market_str) ==
    IF Upper(market_str) = "US" THEN [raised |-> FALSE, value |-> "US"]
    ELSE IF Upper(market_str) = "SR" THEN [raised |-> FALSE, value |-> "SR"]
    ELSE [raised |-> TRUE, value |-> "400: Market must be 'US' or 'SR'"]

\* the request models declare market: StockMarket, so the body is parsed
\* into a member of the enum by its value, or the request is refused
ParsesAsStockMarket(market_str) == market_str \in Markets

\* the first statements of a handler, inside its try: the exception of
\* get_market_enum is an Exception, and the handler's except turns every
\* Exception into HTTPException(500)
HandlerStart(endpoint, market_str) ==
    LET market_enum == GetMarketEnum(market_str)
    IN  IF market_enum.raised
        THEN [stage |-> "answered", status |-> 500, started |-> FALSE,
              detail |-> IF endpoint = "/report/pdf"
                         THEN <<"PDF Generation failed: ", market_enum.value>>
                         ELSE <<market_enum.value>>]
        ELSE [stage |-> "working", status |-> 0, started |-> TRUE,
              detail |-> <<>>]

Requests == {1, 2}

\* two requests arrive
InitRouter ==
    /\ requests \in
          [Requests ->
              [endpoint : Endpoints, market : MarketStrings,
               stage : {"received"}, status : {0}, started : {FALSE},
               detail : {<<>>}]]
    /\ OptimizerIdle /\ ExtractIdle /\ AuthIdle

\* the body is validated against the request model before the handler is
\* called; a body that does not parse is answered 422
ValidateBody(r) ==
    /\ requests[r].stage = "received"
    /\ requests' =
          [requests EXCEPT ![r] =
              IF ParsesAsStockMarket(@.market)
              THEN [@ EXCEPT !.stage = "handler"]
              ELSE [@ EXCEPT !.stage = "answered", !.status = 422]]
    /\ UNCHANGED <<optimizer_call_vars, extract_vars, auth_vars>>

\* the handler resolves the market and starts its work
HandleRequest(r) ==
    /\ requests[r].stage = "handler"
    /\ requests' =
          [requests EXCEPT ![r] =
              LET start == HandlerStart(@.endpoint, @.market)
              IN  [@ EXCEPT !.stage = start.stage, !.status = start.status,
                            !.started = start.started,
                            !.detail = start.detail]]
    /\ UNCHANGED <<optimizer_call_vars, extract_vars, auth_vars>>

\* the download, analysis or optimization returns or raises; the handler
\* answers 200 or, through its except, 500
FinishRequest(r) ==
    /\ requests[r].stage = "working"
    /\ \E status \in {200, 500} :
          requests' = [requests EXCEPT ![r] =
                          [@ EXCEPT !.stage = "answered",
                                    !.status = status]]
    /\ UNCHANGED <<optimizer_call_vars, extract_vars, auth_vars>>

NextRouter ==
    \E r \in Requests :
        \/ ValidateBody(r)
        \/ HandleRequest(r)
        \/ FinishRequest(r)

SpecRouter == InitRouter /\ [][NextRouter]_vars

\* C30: get_market_enum raises HTTP 400 for a market string other than US
\* or SR (in any case), and a request with such a market is answered 400
\* without any work started.
C30_RejectedMarketAnswered400 ==
    \A r \in Requests :
        (requests[r].stage = "answered"
           /\ GetMarketEnum(requests[r].market).raised) =>
            /\ requests[r].status = 400
            /\ ~requests[r].started

====
